---- MODULE Spec2Model ----
(***************************************************************************)
(* NotethingWidget (src/src/notething-widget.js): the line normalizer, the *)
(* line formatter, the Enter-key transition and the caret-preserving       *)
(* render cycle of a contenteditable surface.                              *)
(*                                                                         *)
(* Text is a sequence of characters; a character is a short string.  The   *)
(* characters stand for the classes the code's regular expressions and     *)
(* String methods tell apart:                                              *)
(*   " "  "\t"   whitespace (\s, trim)          "#"   heading marker       *)
(*   "a"         a lower-case ASCII letter      "A" "S"  upper-case ASCII  *)
(*   "yuml"      U+00FF, the last letter of the class of line 258; its     *)
(*               upper case is                                             *)
(*   "YUML"      U+0178, which is outside that class                       *)
(*   "sz"        U+00DF, in the class; its upper case is "SS"              *)
(*   "-"         one of - * +      "1"  a digit     ">"  block quote       *)
(*   "."  "!"    sentence punctuation ("!" also stands for "?")            *)
(* Line terminators are not in the alphabet, so the second group of the    *)
(* heading pattern always reaches the end of the text.                     *)
(***************************************************************************)
EXTENDS Integers, Sequences, FiniteSets, TLC

VARIABLES
  root,        \* childNodes of this.root: a sequence of nodes
  sel,         \* window.getSelection(): the collapsed range's start
  hasContent,  \* class ntw-has-content on this.root
  options,     \* this.options
  lastOp,      \* the operation that produced this state
  fin,         \* formatter harness: the text given to the formatter
  fout         \* formatter harness: the texts of successive formatter runs

vars == <<root, sel, hasContent, options, lastOp, fin, fout>>

(***************************************************************************)
(* Bounds                                                                  *)
(***************************************************************************)
MaxTextLen == 3   \* formatter harness: length of the enumerated texts
MaxDocChars == 2  \* widget: characters the document may hold before typing stops
MaxLines   == 3   \* widget: children of the surface before Enter/appends stop
MaxSurface == 2   \* normalizer harness: children of the enumerated surfaces

Min(a, b) == IF a < b THEN a ELSE b

(***************************************************************************)
(* String helpers of the JavaScript runtime                                *)
(***************************************************************************)
IsSpace(c) == c \in {" ", "\t"}

\* the character class of line 258: A-Z, a-z, U+00C0-D6, U+00D8-F6, U+00F8-FF
IsLetter(c) == c \in {"a", "A", "S", "yuml", "sz"}

IsDigit(c) == c = "1"

\* String.prototype.toUpperCase on one character
ToUpperCase(c) ==
  IF c = "a" THEN <<"A">>
  ELSE IF c = "yuml" THEN <<"YUML">>
  ELSE IF c = "sz" THEN <<"S", "S">>
  ELSE <<c>>

RECURSIVE LeadingWsLen(_)
LeadingWsLen(t) ==
  IF t = <<>> \/ ~IsSpace(Head(t)) THEN 0 ELSE 1 + LeadingWsLen(Tail(t))

RECURSIVE TrailingWsLen(_)
TrailingWsLen(t) ==
  IF t = <<>> \/ ~IsSpace(t[Len(t)]) THEN 0
  ELSE 1 + TrailingWsLen(SubSeq(t, 1, Len(t) - 1))

\* the leading whitespace, as line 127 and line 251 match it
LeadingWs(t) == SubSeq(t, 1, LeadingWsLen(t))

\* the trailing whitespace, as line 228 matches it
TrailingWs(t) == SubSeq(t, Len(t) - TrailingWsLen(t) + 1, Len(t))

TrimEnd(t) == SubSeq(t, 1, Len(t) - TrailingWsLen(t))

TrimStart(t) == SubSeq(t, LeadingWsLen(t) + 1, Len(t))

Trim(t) == TrimStart(TrimEnd(t))

\* the replace of line 226: non-overlapping pairs of spaces, left to right
RECURSIVE ReplaceDoubleSpaces(_)
ReplaceDoubleSpaces(t) ==
  IF Len(t) < 2 THEN t
  ELSE IF t[1] = " " /\ t[2] = " "
       THEN <<"\t">> \o ReplaceDoubleSpaces(SubSeq(t, 3, Len(t)))
       ELSE <<t[1]>> \o ReplaceDoubleSpaces(Tail(t))

RECURSIVE HashRunLen(_)
HashRunLen(t) ==
  IF t = <<>> \/ Head(t) # "#" THEN 0 ELSE 1 + HashRunLen(Tail(t))

\* length of the first group of the heading pattern of line 243 (whitespace,
\* the run of '#', whitespace) on a text whose trimmed form starts with '#'
HeadingPrefixLen(t) ==
  LET ws1 == LeadingWsLen(t)
      r1  == SubSeq(t, ws1 + 1, Len(t))
      h   == HashRunLen(r1)
      r2  == SubSeq(r1, h + 1, Len(r1))
  IN  ws1 + h + LeadingWsLen(r2)

\* the replace of line 246: every non-space character at the start of the
\* heading content or right after whitespace is upper-cased
RECURSIVE CapitalizeWords(_, _)
CapitalizeWords(t, atBoundary) ==
  IF t = <<>> THEN <<>>
  ELSE IF IsSpace(Head(t)) THEN <<Head(t)>> \o CapitalizeWords(Tail(t), TRUE)
  ELSE (IF atBoundary THEN ToUpperCase(Head(t)) ELSE <<Head(t)>>)
       \o CapitalizeWords(Tail(t), FALSE)

\* the list-marker test of line 253
RECURSIVE DigitRunLen(_)
DigitRunLen(t) ==
  IF t = <<>> \/ ~IsDigit(Head(t)) THEN 0 ELSE 1 + DigitRunLen(Tail(t))

HasMarkdownPrefix(c) ==
  \/ Len(c) >= 2 /\ c[1] \in {"-", ">"} /\ IsSpace(c[2])
  \/ LET d == DigitRunLen(c)
     IN  d >= 1 /\ Len(c) >= d + 2 /\ c[d + 1] = "." /\ IsSpace(c[d + 2])

\* index of the first letter of the class of line 258, 1-based; 0: no match
RECURSIVE FirstLetterIndex(_)
FirstLetterIndex(c) ==
  IF c = <<>> THEN 0
  ELSE IF IsLetter(Head(c)) THEN 1
  ELSE LET k == FirstLetterIndex(Tail(c)) IN IF k = 0 THEN 0 ELSE k + 1

(***************************************************************************)
(* _applyFormattingToLine on the text of a line.  The result <<>> stands   *)
(* for the branch that writes innerHTML = '<br>'.                          *)
(***************************************************************************)
\* lines 242-249: heading capitalization of textWithoutTrailing
HeadingResult(textWithoutTrailing, prefixLen) ==
  SubSeq(textWithoutTrailing, 1, prefixLen)
  \o CapitalizeWords(SubSeq(textWithoutTrailing, prefixLen + 1, Len(textWithoutTrailing)),
                     TRUE)

CapitalizeHeading(textWithoutTrailing, opts) ==
  IF opts.autoCapitalizeHeadings /\ Head(Trim(textWithoutTrailing)) = "#"
  THEN HeadingResult(textWithoutTrailing, HeadingPrefixLen(textWithoutTrailing))
  ELSE textWithoutTrailing

\* lines 254-255 without the list-marker alternative
ShouldCapitalizeWithoutMarkers(leadingWhitespace, contentWithoutIndent, opts) ==
  /\ opts.autoCapitalizeFirstWord
  /\ \/ opts.autoCapitalizeIndented
     \/ Len(leadingWhitespace) = 0

\* lines 254-255
ShouldCapitalize(leadingWhitespace, contentWithoutIndent, opts) ==
  /\ opts.autoCapitalizeFirstWord
  /\ \/ opts.autoCapitalizeIndented
     \/ Len(leadingWhitespace) = 0
     \/ HasMarkdownPrefix(contentWithoutIndent)

\* line 261
UpperCaseAt(leadingWhitespace, contentWithoutIndent, letterIndex) ==
  leadingWhitespace
  \o SubSeq(contentWithoutIndent, 1, letterIndex - 1)
  \o ToUpperCase(contentWithoutIndent[letterIndex])
  \o SubSeq(contentWithoutIndent, letterIndex + 1, Len(contentWithoutIndent))

\* lines 257-263
CapitalizeContent(result, leadingWhitespace, contentWithoutIndent, opts) ==
  IF /\ ShouldCapitalize(leadingWhitespace, contentWithoutIndent, opts)
     /\ contentWithoutIndent # <<>>
     /\ FirstLetterIndex(contentWithoutIndent) > 0
  THEN UpperCaseAt(leadingWhitespace, contentWithoutIndent,
                   FirstLetterIndex(contentWithoutIndent))
  ELSE result

\* lines 251-263
CapitalizeFirstWord(result, opts) ==
  CapitalizeContent(result, LeadingWs(result), TrimStart(result), opts)

\* lines 230-265
FormatParts(textWithoutTrailing, trailingWhitespace, opts) ==
  IF Trim(textWithoutTrailing) = <<>>
  THEN textWithoutTrailing \o trailingWhitespace
  ELSE CapitalizeFirstWord(CapitalizeHeading(textWithoutTrailing, opts), opts)
       \o trailingWhitespace

\* lines 228-229
FormatReplaced(text, opts) == FormatParts(TrimEnd(text), TrailingWs(text), opts)

\* the formatter without the substitution of lines 225-227
FormatTextWithoutTabs(text0, opts) == FormatReplaced(text0, opts)

FormatText(text0, opts) ==
  FormatReplaced(IF opts.convertDoubleSpacesToTabs
                 THEN ReplaceDoubleSpaces(text0) ELSE text0, opts)

(***************************************************************************)
(* The DOM of the surface.  A child of this.root is a node                 *)
(*   kind "div"    a <div>: a Line container                               *)
(*   kind "elem"   an element whose tagName is not DIV                     *)
(*   kind "text"   a raw text node (data)                                  *)
(*   kind "other"  a node that is neither element nor text (a comment)     *)
(* and the children of an element are text nodes and <br> elements.        *)
(***************************************************************************)
Txt(s) == [t |-> "text", s |-> s]
Br == [t |-> "br", s |-> <<>>]

Div(kids) == [kind |-> "div", kids |-> kids, data |-> <<>>]
Elem(kids) == [kind |-> "elem", kids |-> kids, data |-> <<>>]
RawText(s) == [kind |-> "text", kids |-> <<>>, data |-> s]
Comment == [kind |-> "other", kids |-> <<>>, data |-> <<>>]

IsElement(n) == n.kind \in {"div", "elem"}

RECURSIVE KidsText(_)
KidsText(kids) ==
  IF kids = <<>> THEN <<>> ELSE Head(kids).s \o KidsText(Tail(kids))

\* node.textContent
TextContent(n) == IF n.kind = "text" THEN n.data ELSE KidsText(n.kids)

\* this.root.textContent: comments do not contribute
RECURSIVE RootText(_)
RootText(r) ==
  IF r = <<>> THEN <<>>
  ELSE (IF Head(r).kind = "other" THEN <<>> ELSE TextContent(Head(r)))
       \o RootText(Tail(r))

\* el.textContent = s
SetTextContent(s) == IF s = <<>> THEN <<>> ELSE <<Txt(s)>>

\* parsing an element's innerHTML again: empty text nodes vanish and
\* adjacent text nodes become one
RECURSIVE ReparseHTML(_)
ReparseHTML(kids) ==
  IF kids = <<>> THEN <<>>
  ELSE LET rest == ReparseHTML(Tail(kids))
           k    == Head(kids)
       IN  IF k.t = "br" THEN <<Br>> \o rest
           ELSE IF k.s = <<>> THEN rest
           ELSE IF rest # <<>> /\ Head(rest).t = "text"
                THEN <<Txt(k.s \o Head(rest).s)>> \o Tail(rest)
                ELSE <<Txt(k.s)>> \o rest

\* root.firstElementChild / root.lastElementChild as 1-based indexes; 0: null
FirstElementChild(r) ==
  IF \E i \in 1..Len(r) : IsElement(r[i])
  THEN CHOOSE i \in 1..Len(r) :
         IsElement(r[i]) /\ \A j \in 1..(i - 1) : ~IsElement(r[j])
  ELSE 0

LastElementChild(r) ==
  IF \E i \in 1..Len(r) : IsElement(r[i])
  THEN CHOOSE i \in 1..Len(r) :
         IsElement(r[i]) /\ \A j \in (i + 1)..Len(r) : ~IsElement(r[j])
  ELSE 0

(***************************************************************************)
(* _normalizeStructure                                                     *)
(***************************************************************************)
NormalizeNodeKeepsElements(n) ==
  IF n.kind = "text" THEN Div(SetTextContent(n.data)) ELSE n

\* line 208: innerHTML || '<br>'
InnerOrBreak(kids) == IF kids = <<>> THEN <<Br>> ELSE kids

NormalizeNode(n) ==
  IF n.kind = "text" THEN Div(SetTextContent(n.data))
  ELSE IF n.kind = "elem" THEN Div(InnerOrBreak(ReparseHTML(n.kids)))
  ELSE n

NormalizeStructure(r) ==
  IF Len(r) = 0 THEN <<Div(<<Txt(<<>>)>>)>>
  ELSE [i \in 1..Len(r) |-> NormalizeNode(r[i])]

(***************************************************************************)
(* _applyFormattingToLine / _applyFormattingToAllLines on the DOM          *)
(***************************************************************************)
\* lines 231-238 and 265: the text written back, or the marker
LineKids(result) == IF result = <<>> THEN <<Br>> ELSE <<Txt(result)>>

FormatLine(n, opts) ==
  [n EXCEPT !.kids = LineKids(FormatText(TextContent(n), opts))]

ApplyFormattingToAllLines(r, opts) ==
  [i \in 1..Len(r) |-> IF IsElement(r[i]) THEN FormatLine(r[i], opts) ELSE r[i]]

\* _updatePlaceholderState on the trimmed text
HasContentIgnoringWhitespace(r) == Len(Trim(RootText(r))) > 0

\* _updatePlaceholderState
HasContentOf(r) == Len(RootText(r)) > 0

(***************************************************************************)
(* The selection: the start of the collapsed range.                        *)
(*   kind "none"     rangeCount = 0                                        *)
(*   kind "outside"  the container is not inside this.root                 *)
(*   kind "root"     the container is this.root, off a child index         *)
(*   kind "node"     the container is the child idx of this.root itself    *)
(*                   (at "self") or its child number `child` (at "text",   *)
(*                   a text node, or "br")                                 *)
(***************************************************************************)
NoSel == [kind |-> "none", idx |-> 0, at |-> "", child |-> 0, off |-> 0]
OutsideSel == [kind |-> "outside", idx |-> 0, at |-> "", child |-> 0, off |-> 0]
RootSel(k) == [kind |-> "root", idx |-> 0, at |-> "", child |-> 0, off |-> k]
NodeSel(i, at, c, k) == [kind |-> "node", idx |-> i, at |-> at, child |-> c, off |-> k]

NoCaret == [ok |-> FALSE, idx |-> 0, offset |-> 0, textNodeIndex |-> 0]

\* _captureCaret: the line (index of the child of root), range.startOffset and
\* the 0-based index of the text node among the line's childNodes (-1: none)
CaptureCaret(r, s) ==
  IF s.kind # "node" THEN NoCaret
  ELSE IF ~IsElement(r[s.idx]) THEN NoCaret
  ELSE [ok |-> TRUE, idx |-> s.idx, offset |-> s.off,
        textNodeIndex |->
          IF s.at = "text" THEN s.child - 1
          ELSE IF r[s.idx].kids = <<>> THEN -1 ELSE 0]

\* _placeCursor(lineEl, column): <<root, selection>> afterwards
\* lines 321-326: the first child is missing or no text node
ReplaceByTextNode(r, i, s, column) ==
  <<[r EXCEPT ![i].kids = <<Txt(s)>>], NodeSel(i, "text", 1, Min(column, Len(s)))>>

PlaceCursor(r, i, column) ==
  IF r[i].kids # <<>> /\ r[i].kids[1].t = "text"
  THEN <<r, NodeSel(i, "text", 1, Min(column, Len(r[i].kids[1].s)))>>
  ELSE ReplaceByTextNode(r, i, KidsText(SubSeq(r[i].kids, 1, 1)), column)

\* _placeCursorAtEnd
PlaceCursorAtLine(r, s, i) ==
  IF i = 0 THEN <<r, s>> ELSE PlaceCursor(r, i, Len(TextContent(r[i])))

PlaceCursorAtStart(r, s) == PlaceCursorAtLine(r, s, FirstElementChild(r))

PlaceCursorAtEnd(r, s) == PlaceCursorAtLine(r, s, LastElementChild(r))

\* the live range after _normalizeStructure removed its container's subtree
\* from the surface: the range collapses to (root, index of the removed node)
RangeAfterNormalize(r, s) ==
  IF s.kind = "node" /\ r[s.idx].kind \in {"text", "elem"} THEN RootSel(s.idx)
  ELSE s

\* _restoreCaret on the surface r2 obtained from r0: the selection afterwards
\* line 297: lineEl.childNodes[textNodeIndex] || lineEl.firstChild, 1-based
TargetNode(kids, textNodeIndex) ==
  IF textNodeIndex >= 0 /\ textNodeIndex < Len(kids) THEN textNodeIndex + 1 ELSE 1

RestoreInto(idx, kids, k, offset) ==
  NodeSel(idx, kids[k].t, k, Min(offset, Len(kids[k].s)))

RestoreCaretNoClamp(r0, r2, s, caret) ==
  NodeSel(caret.idx, "text", 1, caret.offset)

RestoreCaret(r0, r2, s, caret) ==
  IF r0[caret.idx].kind # "div" THEN RangeAfterNormalize(r0, s)
  ELSE IF r2[caret.idx].kids = <<>> THEN s
  ELSE RestoreInto(caret.idx, r2[caret.idx].kids,
                   TargetNode(r2[caret.idx].kids, caret.textNodeIndex), caret.offset)

\* lines 101-106, on the normalized and formatted surface r2
FinishCycle(r, r2, s, caret) ==
  IF caret.ok THEN <<r2, RestoreCaret(r, r2, s, caret)>>
  ELSE PlaceCursorAtEnd(r2, RangeAfterNormalize(r, s))

\* _runNormalizationAndFormatting: <<root, selection>> afterwards
RunNormalizationAndFormatting(r, s, opts) ==
  FinishCycle(r, ApplyFormattingToAllLines(NormalizeStructure(r), opts), s,
              CaptureCaret(r, s))

\* _getCurrentLineElement as a 1-based index of a child of root; 0: null
GetCurrentLineElement(r, s) ==
  IF s.kind = "none" THEN 0
  ELSE IF s.kind = "node" /\ IsElement(r[s.idx]) THEN s.idx
  ELSE FirstElementChild(r)

\* the auto-full-stop step of _handleEnter (line 130)
NeedsFullStopIgnoringPunctuation(text, opts) ==
  LET trimmed == Trim(text)
  IN  opts.autoFullStop /\ trimmed # <<>> /\ Head(trimmed) # "#"

NeedsFullStop(text, opts) ==
  LET trimmed == Trim(text)
  IN  /\ opts.autoFullStop
      /\ trimmed # <<>>
      /\ Head(trimmed) # "#"
      /\ trimmed[Len(trimmed)] \notin {".", "!"}

InsertAtEnd(seq, i, x) == Append(seq, x)

\* lines 142-146: insertBefore(newLine, lineEl.nextSibling) or appendChild
InsertAt(seq, i, x) == SubSeq(seq, 1, i) \o <<x>> \o SubSeq(seq, i + 1, Len(seq))

\* lines 130-132
Punctuate(n, text, opts) ==
  IF NeedsFullStop(text, opts)
  THEN [n EXCEPT !.kids = SetTextContent(TrimEnd(text) \o <<".">>)]
  ELSE n

\* lines 136-140
NewLine(indentation) ==
  Div(IF indentation = <<>> THEN <<Br>> ELSE <<Txt(indentation)>>)

\* lines 126-148 on the current line i
SplitLine(r, i, text, opts) ==
  PlaceCursor(InsertAt([r EXCEPT ![i] = FormatLine(Punctuate(r[i], text, opts), opts)],
                       i, NewLine(LeadingWs(text))),
              i + 1, Len(LeadingWs(text)))

EnterOnLine(r, s, i, opts) ==
  IF i = 0 THEN <<r, s>> ELSE SplitLine(r, i, TextContent(r[i]), opts)

\* _handleEnter: <<root, selection>> afterwards
HandleEnter(r, s, opts) == EnterOnLine(r, s, GetCurrentLineElement(r, s), opts)

(***************************************************************************)
(* Options (DEFAULT_OPTIONS, normalizeOptions)                             *)
(***************************************************************************)
Opts(h, f, i, s, t) ==
  [autoCapitalizeHeadings |-> h, autoCapitalizeFirstWord |-> f,
   autoCapitalizeIndented |-> i, autoFullStop |-> s,
   convertDoubleSpacesToTabs |-> t]

DefaultOptions == Opts(TRUE, TRUE, FALSE, TRUE, TRUE)

\* every snapshot of the four options the formatter reads
FormatOptions ==
  {Opts(h, f, i, TRUE, t) : h \in BOOLEAN, f \in BOOLEAN, i \in BOOLEAN, t \in BOOLEAN}

\* the snapshots the widget is constructed with
WidgetOptions ==
  {DefaultOptions,
   Opts(TRUE, TRUE, FALSE, FALSE, TRUE),
   Opts(FALSE, FALSE, FALSE, TRUE, FALSE)}

(***************************************************************************)
(* Widget: construction, the browser's edits, and the handlers             *)
(***************************************************************************)
\* characters the user types
TypedChars == {" ", "a", "#"}

\* children the host page may have put in the surface before construction
HostNodes ==
  {RawText(<<" ", "a">>), Elem(<<Txt(<<"a">>), Br>>), Elem(<<>>),
   Div(<<Txt(<<"a">>)>>), Div(<<>>)}

\* a Line whose text starts with U+00FF, as the host page may hold it
HostLatinLine == Div(<<Txt(<<"yuml", "a">>)>>)

HostSurfaces ==
  UNION {[1..n -> HostNodes] : n \in 0..MaxSurface} \cup {<<HostLatinLine>>}

\* constructor, lines 33-35
Construct(surface, opts) ==
  ApplyFormattingToAllLines(NormalizeStructure(surface), opts)

Init ==
  /\ options \in WidgetOptions
  /\ \E h \in HostSurfaces : root = Construct(h, options)
  /\ sel = NoSel
  /\ hasContent = HasContentOf(root)
  /\ lastOp = "construct"
  /\ fin = <<>>
  /\ fout = <<>>

\* the caret positions a click or an arrow key produces
UserCarets(r) ==
  UNION {IF r[i].kids # <<>> /\ r[i].kids[1].t = "text"
         THEN {NodeSel(i, "text", 1, k) : k \in 0..Len(r[i].kids[1].s)}
         ELSE {NodeSel(i, "self", 0, 0)} : i \in {j \in 1..Len(r) : IsElement(r[j])}}

\* the user moves the caret, or the selection leaves the surface
MoveCaret ==
  /\ lastOp # "edit"
  /\ \E s \in UserCarets(root) \cup {NoSel, OutsideSel} :
       /\ s # sel
       /\ sel' = s
  /\ lastOp' = "caret"
  /\ UNCHANGED <<root, hasContent, options, fin, fout>>

\* the browser inserts a typed character at the caret
TypeChar(c) ==
  /\ lastOp # "edit"
  /\ sel.kind = "node"
  /\ IsElement(root[sel.idx])
  /\ LET i == sel.idx
         text == TextContent(root[i])
         pos == IF sel.at = "text" THEN sel.off ELSE 0
     IN  /\ Len(RootText(root)) < MaxDocChars
         /\ root' = [root EXCEPT ![i].kids =
                       <<Txt(SubSeq(text, 1, pos) \o <<c>> \o SubSeq(text, pos + 1, Len(text)))>>]
         /\ sel' = NodeSel(i, "text", 1, pos + 1)
  /\ lastOp' = "edit"
  /\ UNCHANGED <<hasContent, options, fin, fout>>

\* the browser deletes the character before the caret
Backspace ==
  /\ lastOp # "edit"
  /\ sel.kind = "node"
  /\ sel.at = "text"
  /\ sel.off > 0
  /\ LET i == sel.idx
         text == TextContent(root[i])
         rest == SubSeq(text, 1, sel.off - 1) \o SubSeq(text, sel.off + 1, Len(text))
     IN  IF rest = <<>>
         THEN /\ root' = [root EXCEPT ![i].kids = <<Br>>]
              /\ sel' = NodeSel(i, "self", 0, 0)
         ELSE /\ root' = [root EXCEPT ![i].kids = <<Txt(rest)>>]
              /\ sel' = NodeSel(i, "text", 1, sel.off - 1)
  /\ lastOp' = "edit"
  /\ UNCHANGED <<hasContent, options, fin, fout>>

\* Backspace at the start of a line: the browser joins it to the line before
JoinLines ==
  /\ lastOp # "edit"
  /\ sel.kind = "node"
  /\ sel.idx > 1
  /\ sel.off = 0
  /\ LET i == sel.idx
         prev == TextContent(root[i - 1])
         joined == prev \o TextContent(root[i])
     IN  /\ root' = [j \in 1..(Len(root) - 1) |->
                       IF j = i - 1
                       THEN Div(IF joined = <<>> THEN <<Br>> ELSE <<Txt(joined)>>)
                       ELSE IF j < i THEN root[j] ELSE root[j + 1]]
         /\ sel' = IF joined = <<>> THEN NodeSel(i - 1, "self", 0, 0)
                   ELSE NodeSel(i - 1, "text", 1, Len(prev))
  /\ lastOp' = "edit"
  /\ UNCHANGED <<hasContent, options, fin, fout>>

\* select all and delete: the surface is left without children
ClearSurface ==
  /\ lastOp # "edit"
  /\ sel.kind \in {"node", "root"}
  /\ root' = <<>>
  /\ sel' = RootSel(0)
  /\ lastOp' = "edit"
  /\ UNCHANGED <<hasContent, options, fin, fout>>

\* the browser puts typed text in a raw text node that is a child of the surface
AppendRawText(c) ==
  /\ lastOp # "edit"
  /\ sel.kind \in {"node", "root"}
  /\ Len(root) < MaxLines
  /\ Len(RootText(root)) < MaxDocChars
  /\ root' = Append(root, RawText(<<c>>))
  /\ sel' = NodeSel(Len(root) + 1, "self", 0, 1)
  /\ lastOp' = "edit"
  /\ UNCHANGED <<hasContent, options, fin, fout>>

\* the browser puts inserted text in an element that is not a <div>
AppendElement(c) ==
  /\ lastOp # "edit"
  /\ sel.kind \in {"node", "root"}
  /\ Len(root) < MaxLines
  /\ Len(RootText(root)) < MaxDocChars
  /\ root' = Append(root, Elem(<<Txt(<<c>>)>>))
  /\ sel' = NodeSel(Len(root) + 1, "text", 1, 1)
  /\ lastOp' = "edit"
  /\ UNCHANGED <<hasContent, options, fin, fout>>

\* _handleInput, _handleKeyup, _handlePaste: processInput
ProcessInput ==
  /\ \E res \in {RunNormalizationAndFormatting(root, sel, options)} :
       /\ root' = res[1]
       /\ sel' = res[2]
       /\ hasContent' = HasContentOf(res[1])
  /\ lastOp' = "input"
  /\ UNCHANGED <<options, fin, fout>>

\* _handleKeydown with key Enter: processEnter
ProcessEnter ==
  /\ lastOp # "edit"
  /\ Len(root) < MaxLines
  /\ Len(RootText(root)) <= MaxDocChars
  /\ \E res \in {HandleEnter(root, sel, options)} :
       /\ root' = res[1]
       /\ sel' = res[2]
       /\ hasContent' = IF GetCurrentLineElement(root, sel) = 0 THEN hasContent
                         ELSE HasContentOf(res[1])
  /\ lastOp' = "enter"
  /\ UNCHANGED <<options, fin, fout>>

Next ==
  \/ MoveCaret
  \/ \E c \in TypedChars : TypeChar(c)
  \/ Backspace
  \/ JoinLines
  \/ ClearSurface
  \/ \E c \in TypedChars : AppendRawText(c)
  \/ \E c \in TypedChars : AppendElement(c)
  \/ ProcessInput
  \/ ProcessEnter

Spec == Init /\ [][Next]_vars

(***************************************************************************)
(* Formatter harness: the formatter applied twice to an enumerated text    *)
(***************************************************************************)
Alphabet == {" ", "\t", "a", "A", "#", "-", "1", ".", "yuml", "YUML", "sz"}

SampleTexts ==
  {<<"#", " ", "a", " ", "a">>,
   <<"#", "#", "a", "-", "a">>,
   <<" ", " ", "a", " ", " ", "a">>,
   <<" ", "-", " ", "a", " ">>,
   <<" ", "1", ".", " ", "a">>,
   <<" ", ">", " ", "a">>}

Texts == UNION {[1..n -> Alphabet] : n \in 0..MaxTextLen} \cup SampleTexts

FormatInit ==
  /\ options \in FormatOptions
  /\ fin \in Texts
  /\ fout = <<>>
  /\ root = <<>>
  /\ sel = NoSel
  /\ hasContent = FALSE
  /\ lastOp = "format"

\* one more run of the formatter on the line's text
FormatStep ==
  /\ Len(fout) < 2
  /\ fout' = Append(fout, FormatText(IF fout = <<>> THEN fin ELSE fout[Len(fout)], options))
  /\ UNCHANGED <<root, sel, hasContent, options, lastOp, fin>>

FormatNext == FormatStep

FormatSpec == FormatInit /\ [][FormatNext]_vars

(***************************************************************************)
(* Normalizer harness: _normalizeStructure applied to an enumerated surface*)
(***************************************************************************)
SurfaceNodes ==
  {RawText(<<>>), RawText(<<"a">>),
   Elem(<<>>), Elem(<<Txt(<<>>)>>), Elem(<<Txt(<<"a">>)>>), Elem(<<Br>>),
   Elem(<<Txt(<<"a">>), Br>>),
   Div(<<>>), Div(<<Br>>), Div(<<Txt(<<"a">>)>>), Div(<<Txt(<<>>)>>),
   Comment}

Surfaces == UNION {[1..n -> SurfaceNodes] : n \in 0..MaxSurface}

NormalizeInit ==
  /\ root \in Surfaces
  /\ lastOp = "surface"
  /\ options = DefaultOptions
  /\ sel = NoSel
  /\ hasContent = FALSE
  /\ fin = <<>>
  /\ fout = <<>>

NormalizeStep ==
  /\ lastOp = "surface"
  /\ root' = NormalizeStructure(root)
  /\ lastOp' = "normalize"
  /\ UNCHANGED <<sel, hasContent, options, fin, fout>>

NormalizeNext == NormalizeStep

NormalizeSpec == NormalizeInit /\ [][NormalizeNext]_vars

(***************************************************************************)
(* Claims                                                                  *)
(***************************************************************************)
HasMarker(n) == \E k \in 1..Len(n.kids) : n.kids[k].t = "br"

Lines(r) == {i \in 1..Len(r) : IsElement(r[i])}

\* the caret is in the text node of line i at offset k
CaretInLineAt(s, i, k) == s = NodeSel(i, "text", 1, k)

Abs(x) == IF x < 0 THEN -x ELSE x

\* C1: formatting the formatter's output again returns it unchanged, for
\* every text and every snapshot of the options.
C1_FormatIdempotent ==
  Len(fout) = 2 => fout[2] = fout[1]

\* C2: after construction and after every handler, a Line whose text is
\* empty holds a forced line-break marker.
C2_EmptyLineHasMarker ==
  lastOp # "edit" =>
    \A i \in Lines(root) : TextContent(root[i]) = <<>> => HasMarker(root[i])

RECURSIVE CountDots(_)
CountDots(t) ==
  IF t = <<>> THEN 0
  ELSE (IF Head(t) = "." THEN 1 ELSE 0) + CountDots(Tail(t))

\* C3: processEnter appends exactly one '.' to the trailing-whitespace-
\* stripped text of the current line when autoFullStop is on and the trimmed
\* text is non-empty, is no heading and does not end in '.', '!' or '?'; the
\* line then holds the formatter's output on that text.  In every other case
\* no '.' is appended, so an already punctuated line never gets a second one.
C3_FullStop ==
  [][(lastOp' = "enter" /\ GetCurrentLineElement(root, sel) # 0) =>
       LET i == GetCurrentLineElement(root, sel)
           text == TextContent(root[i])
           trimmed == Trim(text)
           after == TextContent(root'[i])
           applies == /\ options.autoFullStop
                      /\ trimmed # <<>>
                      /\ Head(trimmed) # "#"
                      /\ trimmed[Len(trimmed)] \notin {".", "!"}
       IN  IF applies
           THEN /\ after = FormatText(TrimEnd(text) \o <<".">>, options)
                /\ after[Len(after)] = "."
                /\ CountDots(after) = CountDots(text) + 1
           ELSE /\ after = FormatText(text, options)
                /\ CountDots(after) = CountDots(text)]_vars

C3_Witness ==
  /\ lastOp = "enter"
  /\ options.autoFullStop
  /\ sel.kind = "node"
  /\ sel.idx > 1
  /\ TextContent(root[sel.idx - 1]) = <<"A", ".">>

\* C4: processEnter on the current line i inserts one new Line at i+1 whose
\* text is the leading whitespace line i had before the handler ran, puts the
\* caret on it at the length of that indentation, and leaves every other
\* Line as it was and in the same order.
C4_EnterSplits ==
  [][(lastOp' = "enter" /\ GetCurrentLineElement(root, sel) # 0) =>
       LET i == GetCurrentLineElement(root, sel)
           indentation == LeadingWs(TextContent(root[i]))
       IN  /\ Len(root') = Len(root) + 1
           /\ root'[i + 1].kind = "div"
           /\ TextContent(root'[i + 1]) = indentation
           /\ CaretInLineAt(sel', i + 1, Len(indentation))
           /\ \A j \in 1..(i - 1) : root'[j] = root[j]
           /\ \A j \in (i + 1)..Len(root) : root'[j + 1] = root[j]]_vars

C4_Witness ==
  /\ lastOp = "enter"
  /\ Len(root) = 3
  /\ CaretInLineAt(sel, 2, 1)
  /\ TextContent(root[2]) = <<" ">>
  /\ TextContent(root[3]) # <<>>

\* C5 as stated: after the normalizer the children of the surface are Line
\* containers only, one per original child in the original order, whatever
\* the kinds of the original children; an empty surface gets one empty Line;
\* Line containers are left untouched.
C5_NormalizeAnySurface ==
  [][lastOp' = "normalize" =>
       /\ \A i \in 1..Len(root') : root'[i].kind = "div"
       /\ Len(root') = IF Len(root) = 0 THEN 1 ELSE Len(root)
       /\ Len(root) = 0 => TextContent(root'[1]) = <<>>
       /\ \A i \in 1..Len(root) : root[i].kind = "div" => root'[i] = root[i]]_vars

\* C5, amended: the same for a surface whose children are raw text nodes and
\* elements; a child that is neither (a comment) is left in place.
C5_NormalizeTextAndElements ==
  [][lastOp' = "normalize" =>
       /\ Len(root') = IF Len(root) = 0 THEN 1 ELSE Len(root)
       /\ Len(root) = 0 => root'[1].kind = "div" /\ TextContent(root'[1]) = <<>>
       /\ \A i \in 1..Len(root) :
            /\ root[i].kind \in {"text", "elem"} =>
                 /\ root'[i].kind = "div"
                 /\ TextContent(root'[i]) = TextContent(root[i])
            /\ root[i].kind \in {"div", "other"} => root'[i] = root[i]
       /\ (\A i \in 1..Len(root) : root[i].kind # "other") =>
            \A i \in 1..Len(root') : root'[i].kind = "div"]_vars

C5_Witness ==
  /\ lastOp = "normalize"
  /\ Len(root) = 2
  /\ root[1] = Div(<<Txt(<<"a">>)>>)
  /\ root[2] = Div(<<Br>>)

\* C6: when the caret was captured on a Line that is still in the Document,
\* the cycle leaves the caret on that Line at min(captured offset, length of
\* the Line's text), so within the text and no further from the captured
\* offset than the formatter changed the length of the Line.
C6_CaretClamped ==
  [][(lastOp' = "input" /\ CaptureCaret(root, sel).ok
        /\ root[CaptureCaret(root, sel).idx].kind = "div") =>
       LET caret == CaptureCaret(root, sel)
           before == Len(TextContent(root[caret.idx]))
           now == Len(TextContent(root'[caret.idx]))
       IN  /\ sel'.kind = "node"
           /\ sel'.idx = caret.idx
           /\ sel'.off = Min(caret.offset, now)
           /\ sel'.off >= 0
           /\ sel'.off <= now
           /\ Abs(sel'.off - caret.offset) <= Abs(now - before)]_vars

C6_Witness ==
  /\ lastOp = "input"
  /\ options.convertDoubleSpacesToTabs
  /\ \E i \in Lines(root) :
       /\ TextContent(root[i]) = <<"\t">>
       /\ CaretInLineAt(sel, i, 1)

\* C7: a second render cycle right after a render cycle changes neither the
\* Document nor the caret.
C7_RenderCycleIdempotent ==
  [][(lastOp = "input" /\ lastOp' = "input") => (root' = root /\ sel' = sel)]_vars

\* C8: when the caret cannot be captured, the cycle ends with the caret on
\* the last Line at the length of its text.
C8_FallbackToEnd ==
  [][(lastOp' = "input" /\ ~CaptureCaret(root, sel).ok) =>
       LET i == LastElementChild(root')
       IN  /\ i # 0
           /\ \A j \in (i + 1)..Len(root') : ~IsElement(root'[j])
           /\ CaretInLineAt(sel', i, Len(TextContent(root'[i])))]_vars

C8_Witness ==
  /\ lastOp = "input"
  /\ Len(root) = 2
  /\ root[2].kids = <<Txt(<<>>)>>
  /\ CaretInLineAt(sel, 2, 0)

\* C9: when the captured Line was replaced by the normalizer in the same
\* cycle, the cycle ends with the caret on the last Line at the length of
\* its text.
C9_DetachedLineFallsBack ==
  [][(lastOp' = "input" /\ CaptureCaret(root, sel).ok
        /\ root[CaptureCaret(root, sel).idx].kind # "div") =>
       LET i == LastElementChild(root')
       IN  /\ i # 0
           /\ CaretInLineAt(sel', i, Len(TextContent(root'[i])))]_vars

\* C10: the state processEnter leaves, when the caret was in a Line, is one a
\* render cycle does not change: neither the Document nor the caret.
C10_EnterThenCycleStable ==
  [][(lastOp' = "enter" /\ sel.kind = "node" /\ IsElement(root[sel.idx])) =>
       LET res == RunNormalizationAndFormatting(root', sel', options)
       IN  res[1] = root' /\ res[2] = sel']_vars

\* one character upper-cased, for the characters whose upper case is one
\* character
UpperChar(c) == IF c = "a" THEN "A" ELSE IF c = "yuml" THEN "YUML" ELSE c

\* the text has no character whose upper case is longer than one character
SameLengthCase(t) == \A k \in 1..Len(t) : t[k] # "sz"

\* position k of text t lies after the prefix and starts a word
StartsWord(t, prefixLen, k) ==
  k > prefixLen /\ ~IsSpace(t[k]) /\ (k = prefixLen + 1 \/ IsSpace(t[k - 1]))

\* the trimmed text starts with a run of '#' that whitespace follows
HashesThenWhitespace(t) ==
  LET core == Trim(t)
      h == HashRunLen(core)
  IN  h > 0 /\ Len(core) > h /\ IsSpace(core[h + 1])

\* the trimmed text starts with a run of '#' that a non-space follows
HashesThenWord(t) ==
  LET core == Trim(t)
      h == HashRunLen(core)
  IN  h > 0 /\ Len(core) > h /\ ~IsSpace(core[h + 1])

\* C11: with heading capitalization on (first-word capitalization and tab
\* substitution off), a line of the form '#'-run, whitespace, words keeps
\* its prefix and has the first character of every word upper-cased, and a
\* line whose '#'-run is directly followed by a word comes out unchanged.
C11_HeadingNeedsWhitespace ==
  (/\ Len(fout) >= 1
   /\ options.autoCapitalizeHeadings
   /\ ~options.autoCapitalizeFirstWord
   /\ ~options.convertDoubleSpacesToTabs
   /\ SameLengthCase(fin)) =>
    /\ HashesThenWhitespace(fin) =>
         /\ Len(fout[1]) = Len(fin)
         /\ \A k \in 1..Len(fin) :
              fout[1][k] = IF StartsWord(fin, HeadingPrefixLen(TrimEnd(fin)), k)
                           THEN UpperChar(fin[k]) ELSE fin[k]
    /\ HashesThenWord(fin) => fout[1] = fin

\* the text the analysis of the formatter works on: after the tab substitution
Substituted(t, opts) ==
  IF opts.convertDoubleSpacesToTabs THEN ReplaceDoubleSpaces(t) ELSE t

\* the content starts with a list-style marker: digits, '.', whitespace; or
\* '-' ('*', '+'), whitespace; or '>', whitespace
StartsWithListMarker(c) ==
  \/ Len(c) >= 2 /\ c[1] \in {"-", ">"} /\ c[2] \in {" ", "\t"}
  \/ \E d \in 1..Len(c) :
       /\ \A k \in 1..d : c[k] = "1"
       /\ Len(c) >= d + 2
       /\ c[d + 1] = "."
       /\ c[d + 2] \in {" ", "\t"}

\* an alphabetic character, inside the class of line 258 or not
IsAlphabetic(c) == c \in {"a", "A", "S", "yuml", "YUML", "sz"}

\* position of the first alphabetic character of the text; 0 when it has none
FirstLetterPos(t) ==
  IF \E k \in 1..Len(t) : IsAlphabetic(t[k])
  THEN CHOOSE k \in 1..Len(t) :
         IsAlphabetic(t[k]) /\ \A j \in 1..(k - 1) : ~IsAlphabetic(t[j])
  ELSE 0

\* first-word capitalization is due on the text
Eligible(t, opts) ==
  /\ opts.autoCapitalizeFirstWord
  /\ \/ LeadingWsLen(t) = 0
     \/ opts.autoCapitalizeIndented
     \/ StartsWithListMarker(Trim(t))

\* the line is not subject to heading capitalization
NoHeadingRule(t, opts) ==
  ~opts.autoCapitalizeHeadings \/ Trim(t) = <<>> \/ Head(Trim(t)) # "#"

C13_TabsBeforeAnalysis ==
  (Len(fout) >= 1 /\ options.convertDoubleSpacesToTabs) =>
    /\ fout[1] = FormatText(ReplaceDoubleSpaces(fin),
                            [options EXCEPT !.convertDoubleSpacesToTabs = FALSE])
    /\ (Len(fin) >= 3 /\ fin[1] = " " /\ fin[2] = " " /\ ~IsSpace(fin[3])) =>
         /\ fout[1][1] = "\t"
         /\ (/\ ~options.autoCapitalizeIndented
             /\ NoHeadingRule(ReplaceDoubleSpaces(fin), options)
             /\ ~StartsWithListMarker(Trim(ReplaceDoubleSpaces(fin)))) =>
              fout[1] = ReplaceDoubleSpaces(fin)

C13_Witness ==
  /\ fin = <<" ", " ", "a", " ", " ", "a">>
  /\ options.convertDoubleSpacesToTabs
  /\ options.autoCapitalizeFirstWord
  /\ ~options.autoCapitalizeIndented
  /\ Len(fout) >= 1
  /\ fout[1] = <<"\t", "a", "\t", "a">>

\* total length of the text of the Lines of the Document
RECURSIVE TotalTextLength(_)
TotalTextLength(r) ==
  IF r = <<>> THEN 0
  ELSE (IF IsElement(Head(r)) THEN Len(KidsText(Head(r).kids)) ELSE 0)
       + TotalTextLength(Tail(r))

\* C14: after construction and after every processInput and processEnter
\* the has-content flag is true exactly when the total text length of the
\* Document is nonzero.
C14_HasContentFlag ==
  lastOp \in {"construct", "input", "enter"} =>
    (hasContent <=> TotalTextLength(root) > 0)

C14_Witness ==
  /\ lastOp = "enter"
  /\ hasContent
  /\ Len(root) = 2
  /\ TextContent(root[1]) = <<" ">>
  /\ TextContent(root[2]) = <<" ">>

\* number of space characters the text starts with
RECURSIVE SpaceRunLen(_)
SpaceRunLen(t) ==
  IF t = <<>> \/ Head(t) # " " THEN 0 ELSE 1 + SpaceRunLen(Tail(t))

\* every maximal run of exactly two spaces replaced by one tab
RECURSIVE ExactPairsToTabs(_)
ExactPairsToTabs(t) ==
  IF t = <<>> THEN <<>>
  ELSE IF SpaceRunLen(t) = 0 THEN <<Head(t)>> \o ExactPairsToTabs(Tail(t))
  ELSE IF SpaceRunLen(t) = 2
       THEN <<"\t">> \o ExactPairsToTabs(SubSeq(t, 3, Len(t)))
       ELSE SubSeq(t, 1, SpaceRunLen(t))
            \o ExactPairsToTabs(SubSeq(t, SpaceRunLen(t) + 1, Len(t)))

\* C15: with the capitalization rules off, the formatter with
\* convertDoubleSpacesToTabs on replaces every maximal run of exactly two
\* spaces by one tab and leaves single spaces and runs of three or more
\* spaces as they are; with the option off it returns the text unchanged.
C15_ExactPairsOnly ==
  (/\ Len(fout) >= 1
   /\ ~options.autoCapitalizeHeadings
   /\ ~options.autoCapitalizeFirstWord) =>
    fout[1] = IF options.convertDoubleSpacesToTabs
              THEN ExactPairsToTabs(fin) ELSE fin

\* the selection anchor is in no Line of the surface
NoCurrentLine(r, s) ==
  \/ s.kind \in {"none", "outside"}
  \/ s.kind = "node" /\ ~IsElement(r[s.idx])

\* C16: processEnter with no selection, or with the selection anchor outside
\* every Line of the surface, changes neither the Document nor the caret
\* nor the has-content flag.
C16_EnterWithoutLineIsNoOp ==
  [][(lastOp' = "enter" /\ NoCurrentLine(root, sel)) =>
       (root' = root /\ sel' = sel /\ hasContent' = hasContent)]_vars

\* C17: with convertDoubleSpacesToTabs off the formatter's output has the
\* length of its input and the same leading and trailing whitespace, differs
\* from the input only where a letter was replaced by its upper case, and is
\* the input itself for a whitespace-only line.
C17_OnlyLetterCaseChanges ==
  (Len(fout) >= 1 /\ ~options.convertDoubleSpacesToTabs) =>
    /\ Len(fout[1]) = Len(fin)
    /\ LeadingWs(fout[1]) = LeadingWs(fin)
    /\ TrailingWs(fout[1]) = TrailingWs(fin)
    /\ \A k \in 1..Min(Len(fin), Len(fout[1])) :
         \/ fout[1][k] = fin[k]
         \/ IsAlphabetic(fin[k]) /\ fout[1][k] = UpperChar(fin[k])
    /\ Trim(fin) = <<>> => fout[1] = fin

\* C18: after construction and after every processInput and processEnter,
\* under the options of the widget, the text of every Line is a fixed point
\* of the formatter.
C18_LinesAreFormatted ==
  lastOp \in {"construct", "input", "enter"} =>
    \A i \in Lines(root) :
      FormatText(TextContent(root[i]), options) = TextContent(root[i])

====
